---- MODULE Spec2Model ----
(***************************************************************************)
(* Model of the training orchestrator (utils/trainer.py: EarlyStopping,    *)
(* ProductionTrainer) and of the explanation entry point                   *)
(* (explain_model.py: main, generate_shap_explanation,                     *)
(* generate_mock_explanation).                                             *)
(*                                                                         *)
(* Numbers.  Losses and scores are floats in the program.  Here a score is *)
(* a natural number counted in units of 0.00005, so that min_delta         *)
(* (0.0001) is MinDelta = 2 units and a decrease smaller than min_delta    *)
(* can be written down.  Feature values are integers; contributions and    *)
(* baselines of the fallback explanation are counted in hundredths.        *)
(*                                                                         *)
(* Tensors.  A model's parameters live in a storage cell of `heap`.        *)
(* state_dict() returns tensors that share the parameters' storage and     *)
(* dict.copy() copies the dict, not the tensors, so a state dict is        *)
(* modelled as a reference to a cell, and reading it reads the cell.       *)
(***************************************************************************)
EXTENDS Integers, Sequences, FiniteSets, TLC

VARIABLES
    pc,          \* position of the training run (ProductionTrainer)
    epoch,       \* loop variable of ProductionTrainer.train
    heap,        \* tensor storage: cell -> parameter value
    es,          \* the EarlyStopping instance
    train_loss,  \* local of train(): result of _train_epoch
    val_loss,    \* local of train(): result of _validate_epoch
    history,     \* ProductionTrainer.history, one record per epoch
    sched,       \* the ReduceLROnPlateau scheduler and the optimizer's lr
    train_len,   \* len(train_loader), in batches
    val_len,     \* len(val_loader), in batches
    files,       \* the files export_onnx has written: path -> content
    recorded,    \* history variable: parameter value when best_state was last set
    calls,       \* history variable: scores passed to EarlyStopping so far
    rets,        \* history variable: values EarlyStopping returned so far
    ex,          \* one run of the explanation entry point (explain_model.main)
    prep         \* data preparation of a training entry point

trainerVars == <<pc, epoch, heap, es, train_loss, val_loss, history, sched,
                 train_len, val_len, files, recorded, calls, rets>>

vars == <<pc, epoch, heap, es, train_loss, val_loss, history, sched,
          train_len, val_len, files, recorded, calls, rets, ex, prep>>

\* Python's None; every number of the model is >= 0
None == -1

\* ----------------------------------------------------------------------
\* Bounds of the model
\* ----------------------------------------------------------------------
Epochs == 3         \* ProductionTrainer.epochs of the modelled run
MaxPatience == 2    \* patience is drawn from 1..MaxPatience
MaxValLoss == 3     \* validation losses are drawn from 0..MaxValLoss
MaxTrainLoss == 1   \* training losses are drawn from 0..MaxTrainLoss
MaxBatches == 1     \* loader lengths are drawn from 0..MaxBatches
MaxScore == 6       \* scores of the stand-alone EarlyStopping: 0..MaxScore
MaxRuleCalls == 5   \* calls of one EarlyStopping instance in SpecRule
MaxRuleScore == 3   \* scores 0..MaxRuleScore in SpecRule
MaxCalls == 4       \* calls made on the stand-alone EarlyStopping
MaxFeatures == 2    \* an input record has 0..MaxFeatures features
MaxAbsValue == 2    \* feature values are drawn from -MaxAbsValue..MaxAbsValue
MaxRankFeatures == 6  \* features of a record handed to a result builder
MaxRows == 2        \* a dataset handed to prepare_data has 0..MaxRows rows
MaxSplits == 2      \* invocations of prepare_data in one behaviour
MaxRngState == 3    \* generator states 0..MaxRngState a process may start from
MaxColValue == 3    \* a feature value is 0..MaxColValue millionths
MaxColumns == 2     \* columns of a table handed to normalize_features

\* ----------------------------------------------------------------------
\* Program constants
\* ----------------------------------------------------------------------
MinDelta == 2          \* EarlyStopping.min_delta = 0.0001, in score units
SchedPatience == 5     \* ReduceLROnPlateau(patience=5)
MaxHalvings == 10      \* lr 0.001 halved down to the floor min_lr = 1e-6
LiveCell == 0          \* the storage of the live model's parameters

\* ----------------------------------------------------------------------
\* EarlyStopping
\* ----------------------------------------------------------------------
EarlyStopping_init(patience) ==
    [patience |-> patience, min_delta |-> MinDelta, mode |-> "min",
     counter |-> 0, best_score |-> None, should_stop |-> FALSE,
     best_state |-> None]

\* is_improved with the comparison of the other mode
is_improved_wrong_mode(e, score) ==
    IF e.best_score = None THEN TRUE
    ELSE score > e.best_score + e.min_delta

\* is_improved taking a score within min_delta above the best for better
is_improved_lenient(e, score) ==
    IF e.best_score = None THEN TRUE
    ELSE score < e.best_score + e.min_delta

is_improved(e, score) ==
    IF e.best_score = None THEN TRUE
    ELSE IF e.mode = "min" THEN score < e.best_score - e.min_delta
    ELSE score > e.best_score + e.min_delta

\* model.state_dict().copy(): a new dict holding the same tensors, which
\* share the storage of the model's parameters.
state_dict_copy(modelCell) == modelCell

\* EarlyStopping.__call__ stopping one call late (counter > patience)
EarlyStopping_call_late(e, score, modelCell) ==
    IF e.best_score = None
    THEN [es  |-> [e EXCEPT !.best_score = score,
                            !.best_state = state_dict_copy(modelCell)],
          ret |-> FALSE]
    ELSE IF is_improved(e, score)
    THEN [es  |-> [e EXCEPT !.best_score = score,
                            !.best_state = state_dict_copy(modelCell),
                            !.counter = 0],
          ret |-> e.should_stop]
    ELSE LET c == e.counter + 1
             s == IF c > e.patience THEN TRUE ELSE e.should_stop
         IN [es  |-> [e EXCEPT !.counter = c, !.should_stop = s],
             ret |-> s]

\* EarlyStopping.__call__ keeping the counter when the score improves
EarlyStopping_call_keep_counter(e, score, modelCell) ==
    IF e.best_score = None
    THEN [es  |-> [e EXCEPT !.best_score = score,
                            !.best_state = state_dict_copy(modelCell)],
          ret |-> FALSE]
    ELSE IF is_improved(e, score)
    THEN [es  |-> [e EXCEPT !.best_score = score,
                            !.best_state = state_dict_copy(modelCell)],
          ret |-> e.should_stop]
    ELSE LET c == e.counter + 1
             s == IF c >= e.patience THEN TRUE ELSE e.should_stop
         IN [es  |-> [e EXCEPT !.counter = c, !.should_stop = s],
             ret |-> s]

\* EarlyStopping.__call__ clearing should_stop when the score improves
EarlyStopping_call_unstop(e, score, modelCell) ==
    IF e.best_score = None
    THEN [es  |-> [e EXCEPT !.best_score = score,
                            !.best_state = state_dict_copy(modelCell)],
          ret |-> FALSE]
    ELSE IF is_improved(e, score)
    THEN [es  |-> [e EXCEPT !.best_score = score,
                            !.best_state = state_dict_copy(modelCell),
                            !.counter = 0,
                            !.should_stop = FALSE],
          ret |-> FALSE]
    ELSE LET c == e.counter + 1
             s == IF c >= e.patience THEN TRUE ELSE e.should_stop
         IN [es  |-> [e EXCEPT !.counter = c, !.should_stop = s],
             ret |-> s]

\* EarlyStopping.__call__: the instance after the call and the value returned.
EarlyStopping_call(e, score, modelCell) ==
    IF e.best_score = None
    THEN [es  |-> [e EXCEPT !.best_score = score,
                            !.best_state = state_dict_copy(modelCell)],
          ret |-> FALSE]
    ELSE IF is_improved(e, score)
    THEN [es  |-> [e EXCEPT !.best_score = score,
                            !.best_state = state_dict_copy(modelCell),
                            !.counter = 0],
          ret |-> e.should_stop]
    ELSE LET c == e.counter + 1
             s == IF c >= e.patience THEN TRUE ELSE e.should_stop
         IN [es  |-> [e EXCEPT !.counter = c, !.should_stop = s],
             ret |-> s]

\* Whether a call with this score stores a checkpoint.
Records(e, score) == e.best_score = None \/ is_improved(e, score)

\* ----------------------------------------------------------------------
\* ReduceLROnPlateau(mode='min', factor=0.5, patience=5, min_lr=1e-6) and
\* the optimizer's learning rate, kept as the number of halvings of 0.001.
\* ----------------------------------------------------------------------
scheduler_init == [lr |-> 0, best |-> None, num_bad_epochs |-> 0]

scheduler_step(s, metric) ==
    LET better == s.best = None \/ metric < s.best
        best2  == IF better THEN metric ELSE s.best
        bad2   == IF better THEN 0 ELSE s.num_bad_epochs + 1
    IN IF bad2 > SchedPatience
       THEN [lr |-> IF s.lr < MaxHalvings THEN s.lr + 1 ELSE s.lr,
             best |-> best2, num_bad_epochs |-> 0]
       ELSE [lr |-> s.lr, best |-> best2, num_bad_epochs |-> bad2]

\* ----------------------------------------------------------------------
\* ProductionTrainer
\* ----------------------------------------------------------------------
\* self.history = {'train_loss': [], 'val_loss': [], 'learning_rate': []}
history_init == [train_loss |-> <<>>, val_loss |-> <<>>, learning_rate |-> <<>>]

\* The loop running one epoch too many
loop_head_one_more(e) == IF e <= Epochs THEN "train_epoch" ELSE "finalize"

\* for epoch in range(self.epochs): where the loop goes for loop variable e
loop_head(e) == IF e < Epochs THEN "train_epoch" ELSE "finalize"

\* ProductionTrainer.__init__, followed by the loaders handed to train()
Init ==
    /\ pc = "constructed"
    /\ epoch = 0
    /\ heap = [c \in {LiveCell} |-> 0]
    /\ \E p \in 1..MaxPatience : es = EarlyStopping_init(p)
    /\ train_loss = None
    /\ val_loss = None
    /\ history = history_init
    /\ sched = scheduler_init
    /\ train_len \in 0..MaxBatches
    /\ val_len \in 0..MaxBatches
    /\ files = <<>>
    /\ recorded = None
    /\ calls = <<>>
    /\ rets = <<>>
    /\ ex = [xpc |-> "idle"]
    /\ prep = [ppc |-> "idle"]

\* train(): entry, up to the head of the epoch loop
train ==
    /\ pc = "constructed"
    /\ epoch' = 0
    /\ pc' = loop_head(0)
    /\ UNCHANGED <<heap, es, train_loss, val_loss, history, sched, train_len,
                   val_len, files, recorded, calls, rets, ex, prep>>

\* _train_epoch: every batch updates the parameters in place
\* (optimizer.step()); the mean over len(train_loader) divides by zero for
\* an empty loader.
train_epoch ==
    /\ pc = "train_epoch"
    /\ heap' = [heap EXCEPT ![LiveCell] = @ + train_len]
    /\ IF train_len = 0
       THEN pc' = "raised" /\ UNCHANGED train_loss
       ELSE pc' = "validate_epoch" /\ train_loss' \in 0..MaxTrainLoss
    /\ UNCHANGED <<epoch, es, val_loss, history, sched, train_len, val_len,
                   files, recorded, calls, rets, ex, prep>>

\* _validate_epoch: no parameter update (torch.no_grad)
validate_epoch ==
    /\ pc = "validate_epoch"
    /\ IF val_len = 0
       THEN pc' = "raised" /\ UNCHANGED val_loss
       ELSE pc' = "update_state" /\ val_loss' \in 0..MaxValLoss
    /\ UNCHANGED <<epoch, heap, es, train_loss, history, sched, train_len,
                   val_len, files, recorded, calls, rets, ex, prep>>

\* _update_training_state overwriting the last entry instead of appending
history_append_overwrite(h, tl, vl, lr) ==
    IF h.train_loss = <<>>
    THEN [train_loss    |-> <<tl>>, val_loss |-> <<vl>>,
          learning_rate |-> <<lr>>]
    ELSE [train_loss    |-> [h.train_loss EXCEPT ![Len(h.train_loss)] = tl],
          val_loss      |-> [h.val_loss EXCEPT ![Len(h.val_loss)] = vl],
          learning_rate |-> [h.learning_rate EXCEPT ![Len(h.learning_rate)] = lr]]

\* The history after _update_training_state's three appends
history_append(h, tl, vl, lr) ==
    [train_loss    |-> Append(h.train_loss, tl),
     val_loss      |-> Append(h.val_loss, vl),
     learning_rate |-> Append(h.learning_rate, lr)]

\* _update_training_state, and train()'s `if should_stop: break` / next epoch
update_training_state ==
    /\ pc = "update_state"
    /\ LET r == EarlyStopping_call(es, val_loss, LiveCell)
       IN /\ history' = history_append(history, train_loss, val_loss, sched.lr)
          /\ sched' = scheduler_step(sched, val_loss)
          /\ es' = r.es
          /\ recorded' = IF Records(es, val_loss) THEN heap[LiveCell]
                         ELSE recorded
          /\ calls' = Append(calls, val_loss)
          /\ rets' = Append(rets, r.ret)
          /\ IF r.ret
             THEN pc' = "finalize" /\ UNCHANGED epoch
             ELSE epoch' = epoch + 1 /\ pc' = loop_head(epoch + 1)
    /\ UNCHANGED <<heap, train_loss, val_loss, train_len, val_len, files, ex, prep>>

\* load_state_dict(state): copies the state's tensors into the parameters
load_state_dict(h, modelCell, state) == [h EXCEPT ![modelCell] = h[state]]

\* _finalize_training, and train()'s return
finalize_training ==
    /\ pc = "finalize"
    /\ heap' = IF es.best_state # None
               THEN load_state_dict(heap, LiveCell, es.best_state)
               ELSE heap
    /\ pc' = "returned"
    /\ UNCHANGED <<epoch, es, train_loss, val_loss, history, sched, train_len,
                   val_len, files, recorded, calls, rets, ex, prep>>

\* Output paths, as sequences of pieces; ".onnx" never straddles two pieces.
OutputPaths ==
    { <<"waste_predictor", ".onnx">>,
      <<"model", ".pt">>,
      <<"run", ".onnx", "/", "model", ".onnx">> }

\* output_path.replace('.onnx', '_metadata.json'): every occurrence
replace_onnx(path) ==
    [i \in DOMAIN path |->
        IF path[i] = ".onnx" THEN "_metadata.json" ELSE path[i]]

\* _save_metadata reporting the losses of the first epoch ([0] for [-1])
metadata_first_epoch(h) ==
    [kind |-> "metadata",
     finalTrainLoss |-> IF h.train_loss # <<>> THEN h.train_loss[1] ELSE None,
     finalValLoss |-> IF h.val_loss # <<>> THEN h.val_loss[1] ELSE None,
     epochs |-> Len(h.train_loss)]

\* The metadata record _save_metadata dumps
metadata(h) ==
    [kind |-> "metadata",
     finalTrainLoss |-> IF h.train_loss # <<>>
                        THEN h.train_loss[Len(h.train_loss)] ELSE None,
     finalValLoss |-> IF h.val_loss # <<>>
                      THEN h.val_loss[Len(h.val_loss)] ELSE None,
     epochs |-> Len(h.train_loss)]

\* A file system after writing content c at path p
write_file(fs, p, c) ==
    [q \in (DOMAIN fs) \cup {p} |-> IF q = p THEN c ELSE fs[q]]

\* export_onnx: torch.onnx.export writes the artifact, then _save_metadata
export_onnx ==
    /\ pc \in {"constructed", "returned"}
    /\ \E output_path \in OutputPaths :
          files' = write_file(
                      write_file(files, output_path,
                                 [kind |-> "onnx", params |-> heap[LiveCell]]),
                      replace_onnx(output_path), metadata(history))
    /\ pc' = "exported"
    /\ UNCHANGED <<epoch, heap, es, train_loss, val_loss, history, sched,
                   train_len, val_len, recorded, calls, rets, ex, prep>>

Next ==
    \/ train
    \/ train_epoch
    \/ validate_epoch
    \/ update_training_state
    \/ finalize_training
    \/ export_onnx

Spec == Init /\ [][Next]_vars

\* The same run, with every step of train() taken eventually: the loop is
\* sequential code, nothing can hold a step back.
LiveSpec ==
    Spec /\ WF_vars(train) /\ WF_vars(train_epoch) /\ WF_vars(validate_epoch)
         /\ WF_vars(update_training_state) /\ WF_vars(finalize_training)

\* ----------------------------------------------------------------------
\* EarlyStopping on its own: any scores, the model trained between calls
\* ----------------------------------------------------------------------
InitES ==
    /\ pc = "early_stopping"
    /\ epoch = 0
    /\ heap = [c \in {LiveCell} |-> 0]
    /\ \E p \in 1..MaxPatience : es = EarlyStopping_init(p)
    /\ train_loss = None
    /\ val_loss = None
    /\ history = history_init
    /\ sched = scheduler_init
    /\ train_len = 1
    /\ val_len = 1
    /\ files = <<>>
    /\ recorded = None
    /\ calls = <<>>
    /\ rets = <<>>
    /\ ex = [xpc |-> "idle"]
    /\ prep = [ppc |-> "idle"]

\* early_stopping(score, model), for at most maxCalls calls with scores
\* 0..maxScore
es_calls(position, maxCalls, maxScore) ==
    /\ pc = position
    /\ Len(calls) < maxCalls
    /\ \E score \in 0..maxScore :
          LET r == EarlyStopping_call(es, score, LiveCell)
          IN /\ es' = r.es
             /\ recorded' = IF Records(es, score) THEN heap[LiveCell]
                            ELSE recorded
             /\ calls' = Append(calls, score)
             /\ rets' = Append(rets, r.ret)
    /\ UNCHANGED <<pc, epoch, heap, train_loss, val_loss, history, sched,
                   train_len, val_len, files, ex, prep>>

es_call == es_calls("early_stopping", MaxCalls, MaxScore)

\* optimizer.step() between two calls: the parameters change in place
es_model_steps(position, maxCalls) ==
    /\ pc = position
    /\ Len(calls) < maxCalls
    /\ heap[LiveCell] <= Len(calls)
    /\ heap' = [heap EXCEPT ![LiveCell] = @ + 1]
    /\ UNCHANGED <<pc, epoch, es, train_loss, val_loss, history, sched,
                   train_len, val_len, files, recorded, calls, rets, ex, prep>>

es_model_step == es_model_steps("early_stopping", MaxCalls)

NextES == es_call \/ es_model_step

SpecES == InitES /\ [][NextES]_vars

\* The same instance called more often, on fewer scores: long enough for a
\* stop, a later improvement and a call after it
InitRule ==
    /\ pc = "rule"
    /\ epoch = 0
    /\ heap = [c \in {LiveCell} |-> 0]
    /\ \E p \in 1..MaxPatience : es = EarlyStopping_init(p)
    /\ train_loss = None
    /\ val_loss = None
    /\ history = history_init
    /\ sched = scheduler_init
    /\ train_len = 1
    /\ val_len = 1
    /\ files = <<>>
    /\ recorded = None
    /\ calls = <<>>
    /\ rets = <<>>
    /\ ex = [xpc |-> "idle"]
    /\ prep = [ppc |-> "idle"]

rule_call == es_calls("rule", MaxRuleCalls, MaxRuleScore)

rule_model_step == es_model_steps("rule", MaxRuleCalls)

NextRule == rule_call \/ rule_model_step

SpecRule == InitRule /\ [][NextRule]_vars

\* ----------------------------------------------------------------------
\* explain_model.py
\* A feature name is the rank of the name in sorted(input_data.keys()), so
\* a parsed JSON object of n numeric features is a function on 1..n.
\* ----------------------------------------------------------------------
Abs(x) == IF x < 0 THEN -x ELSE x

RECURSIVE sum_seq(_)
sum_seq(s) == IF s = <<>> THEN 0 ELSE s[1] + sum_seq(Tail(s))

\* s[:k] without the cut
take_all(s, k) == s

\* s[:k]
take(s, k) == SubSeq(s, 1, IF Len(s) < k THEN Len(s) ELSE k)

\* One step of sorted(..., reverse=True) on <<key, item>> pairs: p goes
\* behind every pair whose key is not smaller (the sort is stable).
insert_desc(sorted, p) ==
    LET n == Cardinality({i \in DOMAIN sorted : sorted[i][1] >= p[1]})
    IN SubSeq(sorted, 1, n) \o <<p>> \o SubSeq(sorted, n + 1, Len(sorted))

RECURSIVE sort_desc(_)
sort_desc(ps) ==
    IF ps = <<>> THEN <<>>
    ELSE insert_desc(sort_desc(SubSeq(ps, 1, Len(ps) - 1)), ps[Len(ps)])

\* sorted(items, key=..., reverse=True), the keys given alongside the items
sorted_reverse(keyed) == [i \in DOMAIN keyed |-> sort_desc(keyed)[i][2]]

\* generate_mock_explanation: the baseline of a model type, in hundredths
mock_baseline(model_type) ==
    IF model_type = "waste_predictor" THEN 1500
    ELSE IF model_type = "time_estimator" THEN 3000
    ELSE 50

\* The waste_predictor rule without its test for positive values
mock_contribution_unclamped(model_type, val) ==
    IF model_type = "waste_predictor" THEN val * 1
    ELSE IF model_type = "time_estimator" THEN val * 5
    ELSE val * 2

\* generate_mock_explanation: the contribution of a value, in hundredths
mock_contribution(model_type, val) ==
    IF model_type = "waste_predictor" THEN (IF val > 0 THEN val * 1 ELSE 0)
    ELSE IF model_type = "time_estimator" THEN val * 5
    ELSE val * 2

TopN == 5

generate_mock_explanation(model_type, input_data) ==
    LET feature_names == [i \in DOMAIN input_data |-> i]
        contributions ==
            [name \in DOMAIN input_data |->
                mock_contribution(model_type, input_data[name])]
        baseline == mock_baseline(model_type)
        sorted_contribs ==
            sorted_reverse([i \in DOMAIN feature_names |->
                <<Abs(contributions[i]), <<feature_names[i], contributions[i]>>>>])
        is_pos(c) == c[2] > 0
        is_neg(c) == c[2] < 0
        entry(c) == [feature |-> c[1], contribution |-> c[2]]
        pos == SelectSeq(sorted_contribs, is_pos)
        neg == SelectSeq(sorted_contribs, is_neg)
    IN [featureNames |-> feature_names,
        shapValues |-> [i \in DOMAIN feature_names |->
                          contributions[feature_names[i]]],
        expectedValue |-> baseline,
        prediction |-> baseline +
            sum_seq([i \in DOMAIN feature_names |-> contributions[i]]),
        featureImportance |->
            [i \in DOMAIN sorted_contribs |->
                [feature |-> sorted_contribs[i][1],
                 importance |-> Abs(sorted_contribs[i][2]),
                 value |-> input_data[sorted_contribs[i][1]]]],
        topContributors |->
            [positive |-> take([i \in DOMAIN pos |-> entry(pos[i])], TopN),
             negative |-> take([i \in DOMAIN neg |-> entry(neg[i])], TopN)],
        isMock |-> TRUE]

\* What generate_shap_explanation builds from the attribution's outputs:
\* shap_values (one per feature), expected_value and the model's prediction.
shap_result(input_data, shap_values_flat, expected_value, prediction) ==
    LET feature_names == [i \in DOMAIN input_data |-> i]
        sorted_importance ==
            sorted_reverse([i \in DOMAIN feature_names |->
                <<Abs(shap_values_flat[i]),
                  <<feature_names[i], Abs(shap_values_flat[i])>>>>])
        idx == [i \in DOMAIN shap_values_flat |-> i]
        is_pos(i) == shap_values_flat[i] > 0
        is_neg(i) == shap_values_flat[i] < 0
        entry(i) == [feature |-> feature_names[i],
                     contribution |-> shap_values_flat[i]]
        pos == SelectSeq(idx, is_pos)
        neg == SelectSeq(idx, is_neg)
    IN [featureNames |-> feature_names,
        shapValues |-> shap_values_flat,
        expectedValue |-> expected_value,
        prediction |-> prediction,
        featureImportance |->
            [i \in DOMAIN sorted_importance |->
                [feature |-> sorted_importance[i][1],
                 importance |-> sorted_importance[i][2],
                 value |-> input_data[sorted_importance[i][1]]]],
        topContributors |->
            [positive |-> take([i \in DOMAIN pos |-> entry(pos[i])], TopN),
             negative |-> take([i \in DOMAIN neg |-> entry(neg[i])], TopN)]]

\* Where a run of generate_shap_explanation can throw
ShapFailures == {"none", "predict_fn", "attribution", "baseline", "score"}

\* generate_shap_explanation: `raised` when an exception leaves the function,
\* otherwise the pair (result, error) it returns; a result is <<>> for None.
\* Only KernelExplainer(...) and shap_values(...) are inside the try.
generate_shap_explanation(kind, input_data, fail, sv, ev, pred) ==
    IF kind # "object" \/ fail = "predict_fn"
    THEN [raised |-> TRUE, result |-> <<>>, error |-> FALSE]
    ELSE IF fail = "attribution"
    THEN [raised |-> FALSE, result |-> <<>>, error |-> TRUE]
    ELSE IF fail \in {"baseline", "score"}
    THEN [raised |-> TRUE, result |-> <<>>, error |-> FALSE]
    ELSE [raised |-> FALSE,
          result |-> <<shap_result(input_data, sv, ev, pred)>>,
          error |-> FALSE]

\* What --input_data can hold: text that is no JSON, a JSON array, a JSON
\* object with a value that is no number, a JSON object of numeric features.
InputKinds == {"malformed", "array", "nonnumeric", "object"}

InputRecords ==
    UNION {[1..n -> (-MaxAbsValue)..MaxAbsValue] : n \in 0..MaxFeatures}

ModelTypes == {"waste_predictor", "time_estimator", "anomaly_predictor"}

\* What the metadata side-car written next to an exported model holds as
\* normParams for a record of the given features: mean 1 and std 2
side_car_norm_params(input_data) ==
    [means |-> [i \in DOMAIN input_data |-> 1],
     stds |-> [i \in DOMAIN input_data |-> 2]]

\* A run of main() after parser.parse_args().  `scored` is what the
\* compiled model was given as its input, <<>> while it was not run.
InitExplain ==
    /\ pc = "explain"
    /\ epoch = 0
    /\ heap = [c \in {LiveCell} |-> 0]
    /\ es = EarlyStopping_init(1)
    /\ train_loss = None
    /\ val_loss = None
    /\ history = history_init
    /\ sched = scheduler_init
    /\ train_len = 1
    /\ val_len = 1
    /\ files = <<>>
    /\ recorded = None
    /\ calls = <<>>
    /\ rets = <<>>
    /\ \E mt \in ModelTypes, k \in InputKinds, d \in InputRecords,
          shap \in BOOLEAN, onnx \in BOOLEAN, exists \in BOOLEAN,
          bg \in BOOLEAN :
          /\ k # "object" => d = <<>>
          /\ ex = [xpc |-> "start", model_type |-> mt, kind |-> k,
                   input_data |-> d, SHAP_AVAILABLE |-> shap,
                   ONNX_AVAILABLE |-> onnx, model_exists |-> exists,
                   background_given |-> bg, session |-> FALSE,
                   background |-> "None", result |-> <<>>, stdout |-> <<>>,
                   stderr |-> 0, exit_code |-> None,
                   side_car |-> IF exists
                                THEN <<side_car_norm_params(d)>> ELSE <<>>,
                   scored |-> <<>>]
    /\ prep = [ppc |-> "idle"]

\* main() with the `except Exception` clause missing: any exception other
\* than the JSON one ends the process with a traceback and nothing printed
except_exit_json_only(x, message) ==
    IF message = "Invalid JSON input"
    THEN [x EXCEPT !.stdout = Append(@, [error |-> message]),
                   !.exit_code = 1,
                   !.xpc = "exited"]
    ELSE [x EXCEPT !.exit_code = 1, !.xpc = "exited"]

\* main(): an except clause prints the error object and calls sys.exit(1)
except_exit(x, message) ==
    [x EXCEPT !.stdout = Append(@, [error |-> message]),
              !.exit_code = 1,
              !.xpc = "exited"]

\* main(): json.loads and the choice of the path
main_parse ==
    /\ ex.xpc = "start"
    /\ ex' = IF ex.kind = "malformed"
             THEN except_exit(ex, "Invalid JSON input")
             ELSE IF ex.SHAP_AVAILABLE /\ ex.ONNX_AVAILABLE /\ ex.model_exists
             THEN [ex EXCEPT !.xpc = "load_model"]
             ELSE [ex EXCEPT !.xpc = "fallback"]
    /\ UNCHANGED <<trainerVars, prep>>

\* main(): load_onnx_model; ort.InferenceSession may throw
main_load_model ==
    /\ ex.xpc = "load_model"
    /\ \E loads \in BOOLEAN :
          ex' = IF ~loads
                THEN except_exit(ex, "Explanation failed")
                ELSE [ex EXCEPT !.session = TRUE,
                                !.xpc = IF ex.background_given
                                        THEN "load_background" ELSE "shap"]
    /\ UNCHANGED <<trainerVars, prep>>

\* main(): load_background_data, which catches its own exceptions
main_load_background ==
    /\ ex.xpc = "load_background"
    /\ \E loads \in BOOLEAN :
          ex' = IF loads
                THEN [ex EXCEPT !.background = "data", !.xpc = "shap"]
                ELSE [ex EXCEPT !.stderr = @ + 1, !.xpc = "shap"]
    /\ UNCHANGED <<trainerVars, prep>>

\* main(): generate_shap_explanation and the handling of what it returns.
\* predict_fn(input_array) runs the session on the values of input_data as
\* they were given.
main_shap ==
    /\ ex.xpc = "shap"
    /\ \E fail \in ShapFailures,
          sv \in [DOMAIN ex.input_data -> -1..1],
          ev \in 0..1, pred \in 0..1 :
          LET r == generate_shap_explanation(ex.kind, ex.input_data, fail,
                                             sv, ev, pred)
          IN ex' = IF r.raised
                   THEN except_exit(ex, "Explanation failed")
                   ELSE IF r.error
                   THEN [ex EXCEPT !.stderr = @ + 1, !.result = <<>>,
                                   !.xpc = "fallback"]
                   ELSE [ex EXCEPT !.result = r.result, !.xpc = "print",
                                   !.scored = <<ex.input_data>>]
    /\ UNCHANGED <<trainerVars, prep>>

\* main(): `if result is None: result = generate_mock_explanation(...)`;
\* input_data.keys() or float(...) throws for an input that is no object
\* of numbers
main_fallback ==
    /\ ex.xpc = "fallback"
    /\ ex' = IF ex.kind # "object"
             THEN except_exit(ex, "Explanation failed")
             ELSE [ex EXCEPT
                     !.result = <<generate_mock_explanation(ex.model_type,
                                                            ex.input_data)>>,
                     !.xpc = "print"]
    /\ UNCHANGED <<trainerVars, prep>>

\* main(): result["modelType"], result["modelPath"], print(json.dumps(result))
main_print ==
    /\ ex.xpc = "print"
    /\ ex' = [ex EXCEPT !.stdout = Append(@, ex.result[1]),
                        !.exit_code = 0,
                        !.xpc = "done"]
    /\ UNCHANGED <<trainerVars, prep>>

NextExplain ==
    \/ main_parse
    \/ main_load_model
    \/ main_load_background
    \/ main_shap
    \/ main_fallback
    \/ main_print

SpecExplain == InitExplain /\ [][NextExplain]_vars

\* ----------------------------------------------------------------------
\* The two result builders on their own, on records wide enough for the
\* top-contributor lists to be cut
\* ----------------------------------------------------------------------
Attributions == {-2, -1, 0, 1, 2}

RankRecords == UNION {[1..n -> Attributions] : n \in 0..MaxRankFeatures}

\* `vec` is the input record of the fallback path; on the primary path it
\* is the input record and also what explainer.shap_values returned for it
InitRank ==
    /\ pc = "rank"
    /\ epoch = 0
    /\ heap = [c \in {LiveCell} |-> 0]
    /\ es = EarlyStopping_init(1)
    /\ train_loss = None
    /\ val_loss = None
    /\ history = history_init
    /\ sched = scheduler_init
    /\ train_len = 1
    /\ val_len = 1
    /\ files = <<>>
    /\ recorded = None
    /\ calls = <<>>
    /\ rets = <<>>
    /\ \E v \in RankRecords :
          ex = [xpc |-> "rank_start", vec |-> v, path |-> "none",
                result |-> <<>>]
    /\ prep = [ppc |-> "idle"]

\* generate_mock_explanation(model_type, input_data)
rank_fallback ==
    /\ ex.xpc = "rank_start"
    /\ \E mt \in ModelTypes :
          ex' = [ex EXCEPT !.xpc = "ranked", !.path = "fallback",
                           !.result = <<generate_mock_explanation(mt, ex.vec)>>]
    /\ UNCHANGED <<trainerVars, prep>>

\* generate_shap_explanation(session, input_data, background), no step failing
rank_primary ==
    /\ ex.xpc = "rank_start"
    /\ ex' = [ex EXCEPT !.xpc = "ranked", !.path = "primary",
                       !.result = <<shap_result(ex.vec, ex.vec, 0, 0)>>]
    /\ UNCHANGED <<trainerVars, prep>>

NextRank == rank_fallback \/ rank_primary

SpecRank == InitRank /\ [][NextRank]_vars

\* ----------------------------------------------------------------------
\* The training run's variables while another component is looked at
\* ----------------------------------------------------------------------
IdleTrainer(position) ==
    /\ pc = position
    /\ epoch = 0
    /\ heap = [c \in {LiveCell} |-> 0]
    /\ es = EarlyStopping_init(1)
    /\ train_loss = None
    /\ val_loss = None
    /\ history = history_init
    /\ sched = scheduler_init
    /\ train_len = 1
    /\ val_len = 1
    /\ files = <<>>
    /\ recorded = None
    /\ calls = <<>>
    /\ rets = <<>>

\* ----------------------------------------------------------------------
\* ProductionTrainer.prepare_data
\* Rows are numbered 1..n; row i has features i and label label_of(i).  A
\* fraction is a pair <<numerator, denominator>> and the arithmetic on it
\* is exact.
\* ----------------------------------------------------------------------
Fractions == {<<-1, 4>>, <<0, 1>>, <<1, 5>>, <<1, 2>>, <<1, 1>>, <<3, 2>>}

Seeds == {42, 7}

Trainers == {"A", "B"}

permutation_outcomes(n) ==
    {p \in [1..n -> 1..n] : \A i, j \in 1..n : p[i] = p[j] => i = j}

label_of(i) == 10 * i

\* int(x) for x = a / b, b > 0: rounds towards zero
int_of(a, b) == IF a >= 0 THEN a \div b ELSE -((-a) \div b)

\* Where a slice bound k falls in a sequence of length n (Python slicing)
slice_bound(k, n) ==
    IF k < 0 THEN (IF n + k < 0 THEN 0 ELSE n + k)
    ELSE (IF k > n THEN n ELSE k)

\* s[:k] and s[k:]
slice_to(s, k) == SubSeq(s, 1, slice_bound(k, Len(s)))
slice_from(s, k) == SubSeq(s, slice_bound(k, Len(s)) + 1, Len(s))

\* prepare_data leaving the labels in their original order
prepare_data_labels_in_place(indices, n, val_split) ==
    LET features == [j \in 1..n |-> indices[j]]
        labels == [j \in 1..n |-> label_of(j)]
        split_idx == int_of(n * (val_split[2] - val_split[1]), val_split[2])
        x_train == slice_to(features, split_idx)
        x_val == slice_from(features, split_idx)
        y_train == slice_to(labels, split_idx)
        y_val == slice_from(labels, split_idx)
    IN [train_ds |-> [j \in DOMAIN x_train |-> <<x_train[j], y_train[j]>>],
        val_ds |-> [j \in DOMAIN x_val |-> <<x_val[j], y_val[j]>>]]

\* prepare_data up to the two TensorDatasets, for the permutation `indices`
\* that self.rng.permutation(len(features)) returned
prepare_data(indices, n, val_split) ==
    LET features == [j \in 1..n |-> indices[j]]
        labels == [j \in 1..n |-> label_of(indices[j])]
        split_idx == int_of(n * (val_split[2] - val_split[1]), val_split[2])
        x_train == slice_to(features, split_idx)
        x_val == slice_from(features, split_idx)
        y_train == slice_to(labels, split_idx)
        y_val == slice_from(labels, split_idx)
    IN [train_ds |-> [j \in DOMAIN x_train |-> <<x_train[j], y_train[j]>>],
        val_ds |-> [j \in DOMAIN x_val |-> <<x_val[j], y_val[j]>>]]

\* Two trainers, A constructed with seed 42 and B with any seed, on one
\* dataset.  np.random.default_rng(seed) is a deterministic generator: the
\* k-th permutation it draws is a function of the seed and k, left open
\* here; `stream` remembers the ones drawn so far.
InitSplit ==
    /\ IdleTrainer("split")
    /\ ex = [xpc |-> "idle"]
    /\ \E n \in 0..MaxRows, f \in Fractions, s \in Seeds :
          prep = [ppc |-> "split", n |-> n, val_split |-> f,
                  seed |-> [t \in Trainers |-> IF t = "A" THEN 42 ELSE s],
                  draws |-> [t \in Trainers |-> 0],
                  stream |-> <<>>,
                  splits |-> <<>>]

\* trainer.prepare_data(features, labels, val_split).  DataLoader(train_ds,
\* shuffle=True) builds a RandomSampler, which refuses an empty dataset in
\* some versions of torch: then the call raises instead of returning.
split_prepare_data ==
    /\ prep.ppc = "split"
    /\ Len(prep.splits) < MaxSplits
    /\ \E t \in Trainers, indices \in permutation_outcomes(prep.n),
          empty_raises \in BOOLEAN :
          LET key == <<prep.seed[t], prep.draws[t]>>
              d == prepare_data(indices, prep.n, prep.val_split)
          IN /\ key \in DOMAIN prep.stream => indices = prep.stream[key]
             /\ d.train_ds # <<>> => ~empty_raises
             /\ prep' = [prep EXCEPT
                   !.draws[t] = @ + 1,
                   !.stream = [k \in (DOMAIN prep.stream) \cup {key} |->
                                 IF k = key THEN indices ELSE prep.stream[k]],
                   !.splits = Append(@,
                       [trainer |-> t, seed |-> prep.seed[t],
                        raised |-> empty_raises,
                        train_ds |-> d.train_ds, val_ds |-> d.val_ds])]
    /\ UNCHANGED <<trainerVars, ex>>

NextSplit == split_prepare_data

SpecSplit == InitSplit /\ [][NextSplit]_vars

\* ----------------------------------------------------------------------
\* The training entry points (main of train_waste_predictor.py,
\* train_time_estimator.py, train_algorithm_selector.py and
\* train_anomaly_predictor.py) up to the constructed trainer.
\* A state of torch's global generator is recorded by where it comes from:
\* the state the process had (numbered 0..MaxRngState) or manual_seed(s),
\* and how many draws were made since.  The initial parameters of a model
\* are a function of the generator state they were drawn from, so that
\* state stands for them.
\* ----------------------------------------------------------------------
EntryPoints ==
    {"train_waste_predictor", "train_time_estimator",
     "train_algorithm_selector", "train_anomaly_predictor"}

RunSeed == 42

Runs == {1, 2}

process_rng(k) == [origin |-> "process", value |-> k, draws |-> 0]

manual_seed(s) == [origin |-> "manual_seed", value |-> s, draws |-> 0]

\* Two runs of one entry point with the same seed, in processes whose
\* generator may be in any state
InitSeed ==
    /\ IdleTrainer("seed")
    /\ ex = [xpc |-> "idle"]
    /\ \E e \in EntryPoints, k1, k2 \in 0..MaxRngState :
          prep = [ppc |-> "seed", entry |-> e, seed |-> RunSeed,
                  run |-> [r \in Runs |->
                     [at |-> "normalized",
                      torch_rng |-> process_rng(IF r = 1 THEN k1 ELSE k2),
                      params |-> <<>>]]]

\* model = WastePredictorNN(input_size=19): the layers draw their initial
\* weights from the global generator
main_construct_model(r) ==
    /\ prep.ppc = "seed"
    /\ prep.run[r].at = "normalized"
    /\ prep' = [prep EXCEPT
          !.run[r].at = "model",
          !.run[r].params = <<prep.run[r].torch_rng>>,
          !.run[r].torch_rng.draws = @ + 1]
    /\ UNCHANGED <<trainerVars, ex>>

\* trainer = ProductionTrainer(model=model, ..., seed=42): __init__ calls
\* _set_seeds, which calls torch.manual_seed(self.seed)
main_construct_trainer(r) ==
    /\ prep.ppc = "seed"
    /\ prep.run[r].at = "model"
    /\ prep' = [prep EXCEPT
          !.run[r].at = "trainer",
          !.run[r].torch_rng = manual_seed(prep.seed)]
    /\ UNCHANGED <<trainerVars, ex>>

NextSeed ==
    \E r \in Runs : main_construct_model(r) \/ main_construct_trainer(r)

SpecSeed == InitSeed /\ [][NextSeed]_vars

\* ----------------------------------------------------------------------
\* data_loader.normalize_features
\* A feature value is an integer number of 1e-6; a mean or a standard
\* deviation is an integer number of 5e-7 (half of that), which is exact
\* for a table of one or two rows: the population standard deviation of
\* {a, b} is |a - b| / 2.
\* ----------------------------------------------------------------------
Threshold == 2      \* 1e-6

One == 2000000      \* 1.0

TableRows == {1, 2}

Tables ==
    UNION {[1..r -> [1..c -> 0..MaxColValue]] :
              r \in TableRows, c \in 1..MaxColumns}

column(features, c) == [i \in DOMAIN features |-> features[i][c]]

\* features.mean(axis=0) of one column, doubled for a single row
col_mean(col) == IF Len(col) = 1 THEN 2 * col[1] ELSE col[1] + col[2]

\* features.std(axis=0) of one column
col_std(col) == IF Len(col) = 1 THEN 0 ELSE Abs(col[1] - col[2])

\* a guard that only replaces an exact zero
avoid_division_by_zero_exact(s) == IF s > 0 THEN s ELSE One

\* s if s > 1e-6 else 1.0
avoid_division_by_zero(s) == IF s > Threshold THEN s ELSE One

\* The normalized table holds quotients <<numerator, denominator>>
normalize_features(features) ==
    LET cols == DOMAIN features[1]
        means == [c \in cols |-> col_mean(column(features, c))]
        stds == [c \in cols |->
                   avoid_division_by_zero(col_std(column(features, c)))]
    IN [normalized |-> [i \in DOMAIN features |-> [c \in cols |->
                           <<2 * features[i][c] - means[c], stds[c]>>]],
        params |-> [means |-> means, stds |-> stds]]

InitNorm ==
    /\ IdleTrainer("normalize")
    /\ ex = [xpc |-> "idle"]
    /\ \E t \in Tables :
          prep = [ppc |-> "norm_start", features |-> t,
                  normalized |-> <<>>, params |-> <<>>]

main_normalize_features ==
    /\ prep.ppc = "norm_start"
    /\ LET r == normalize_features(prep.features)
       IN prep' = [prep EXCEPT !.ppc = "normalized",
                               !.normalized = r.normalized,
                               !.params = <<r.params>>]
    /\ UNCHANGED <<trainerVars, ex>>

NextNorm == main_normalize_features

SpecNorm == InitNorm /\ [][NextNorm]_vars

\* ----------------------------------------------------------------------
\* One trainer whose train() is invoked a second time after it returned.
\* prep.invocation is the number of the invocation of train() under way;
\* both loaders hold one batch.
\* ----------------------------------------------------------------------
InitRetrain ==
    /\ pc = "constructed"
    /\ epoch = 0
    /\ heap = [c \in {LiveCell} |-> 0]
    /\ \E p \in 1..MaxPatience : es = EarlyStopping_init(p)
    /\ train_loss = None
    /\ val_loss = None
    /\ history = history_init
    /\ sched = scheduler_init
    /\ train_len = 1
    /\ val_len = 1
    /\ files = <<>>
    /\ recorded = None
    /\ calls = <<>>
    /\ rets = <<>>
    /\ ex = [xpc |-> "idle"]
    /\ prep = [ppc |-> "retrain", invocation |-> 1]

\* trainer.train(train_loader, val_loader) on the trainer that has already
\* returned from train(): entry, up to the head of the epoch loop.  Nothing
\* but the loop variable is set; self.early_stopping, self.scheduler and
\* self.history are the objects __init__ made.  The caller does so after a
\* run that early stopping ended.
train_again ==
    /\ pc = "returned"
    /\ prep.invocation = 1
    /\ es.should_stop
    /\ prep' = [prep EXCEPT !.invocation = 2]
    /\ epoch' = 0
    /\ pc' = loop_head(0)
    /\ UNCHANGED <<heap, es, train_loss, val_loss, history, sched, train_len,
                   val_len, files, recorded, calls, rets, ex>>

NextRetrain ==
    \/ train
    \/ train_epoch
    \/ validate_epoch
    \/ update_training_state
    \/ finalize_training
    \/ train_again

SpecRetrain == InitRetrain /\ [][NextRetrain]_vars

\* ======================================================================
\* Properties
\* ======================================================================
IsPrefix(s, t) == Len(s) <= Len(t) /\ SubSeq(t, 1, Len(s)) = s

TrainFinished == pc \in {"returned", "raised"}

\* C1: the model train() returns has the parameters the model had when
\* EarlyStopping last recorded a best score.
C1_ReturnedModelIsBest ==
    (pc = "returned" /\ recorded # None) => heap[LiveCell] = recorded

\* C2: the stored checkpoint keeps the parameter values the model had when
\* it was recorded, whatever training steps follow.
C2_CheckpointIsSnapshot ==
    es.best_state # None => heap[es.best_state] = recorded

\* The calls so far are: (i - 1) calls, an improving call i (the first call,
\* or a call below the first score by more than min_delta), then that same
\* score again and again.
ImprovesThenConstant(i) ==
    /\ i \in 1..Len(calls)
    /\ i = 2 => calls[2] < calls[1] - es.min_delta
    /\ \A j \in i..Len(calls) : calls[j] = calls[i]

\* C3: after an improving call followed by a constant score, the j-th call
\* returns stop exactly when it is at least the patience-th call since the
\* improving one, and should_stop says the same of the last call.
C3_StopsExactlyAtPatience ==
    \A i \in 1..2 :
        ImprovesThenConstant(i) =>
            /\ \A j \in 1..Len(calls) : rets[j] = (j - i >= es.patience)
            /\ es.should_stop = (Len(calls) - i >= es.patience)

C3_Witness ==
    /\ Len(calls) = es.patience + 2
    /\ ImprovesThenConstant(2)
    /\ rets[Len(calls)]
    /\ ~rets[Len(calls) - 1]

\* C4 as stated: a strictly decreasing score sequence never stops.
C4_StrictlyDecreasingNeverStops ==
    (\A j \in 2..Len(calls) : calls[j] < calls[j - 1]) =>
        (~es.should_stop /\ \A j \in 1..Len(calls) : ~rets[j])

\* C4 amended: a score sequence in which each score is below the one before
\* by more than min_delta never stops.
C4_DecreasingByMoreThanDeltaNeverStops ==
    (\A j \in 2..Len(calls) : calls[j] < calls[j - 1] - es.min_delta) =>
        (~es.should_stop /\ \A j \in 1..Len(calls) : ~rets[j])

C4_Witness ==
    /\ Len(calls) > es.patience + 1
    /\ \A j \in 2..Len(calls) : calls[j] < calls[j - 1] - es.min_delta
    /\ ~es.should_stop

\* C5: once a call has returned stop, every later call returns stop, and
\* should_stop, once true, stays true.
C5_NeverUnstops ==
    /\ \A i, j \in 1..Len(rets) : (i < j /\ rets[i]) => rets[j]
    /\ (\E i \in 1..Len(rets) : rets[i]) => es.should_stop

\* a call that improves on every earlier score, made after a stop
C5_Witness ==
    \E j \in 2..Len(calls) :
        /\ rets[j - 1]
        /\ rets[j]
        /\ \A k \in 1..(j - 1) : calls[j] < calls[k] - es.min_delta

\* No epoch is started once EarlyStopping has returned stop, and at most
\* `epochs` epochs run.
C6_NoEpochAfterStop ==
    /\ Len(history.train_loss) <= Epochs
    /\ heap[LiveCell] <= Epochs * train_len
    /\ \A j \in 1..Len(rets) :
          rets[j] => /\ j = Len(rets)
                     /\ pc \in {"finalize", "returned", "exported"}

\* C6: train() terminates, runs at most `epochs` epochs, and runs no
\* training pass, validation pass or history append after the epoch in
\* which EarlyStopping returned stop.
C6_TrainTerminates ==
    /\ []C6_NoEpochAfterStop
    /\ (pc = "train_epoch") ~> TrainFinished

C6_Witness ==
    /\ pc = "returned"
    /\ Len(rets) < Epochs
    /\ Len(rets) > 0
    /\ rets[Len(rets)]

\* C7: the three history lists have equal length, an executed epoch
\* appends one entry to each, and no step removes or changes an entry.
C7_HistoryAppendOnly ==
    [][ /\ IsPrefix(history.train_loss, history'.train_loss)
        /\ IsPrefix(history.val_loss, history'.val_loss)
        /\ IsPrefix(history.learning_rate, history'.learning_rate)
        /\ Len(history'.train_loss) = Len(history'.val_loss)
        /\ Len(history'.val_loss) = Len(history'.learning_rate)
        /\ Len(history'.train_loss) =
              Len(history.train_loss) + (IF pc = "update_state" THEN 1 ELSE 0)
      ]_vars

C7_Witness ==
    /\ pc = "exported"
    /\ Len(history.train_loss) >= 2
    /\ es.should_stop
    /\ es.best_state # None

ExplainEnded == ex.xpc \in {"done", "exited"}

PrimaryAvailable ==
    ex.SHAP_AVAILABLE /\ ex.ONNX_AVAILABLE /\ ex.model_exists

\* C8: for an input that is a JSON object of numeric features the entry
\* point ends with exit code 0 and an explanation result, whatever fails
\* inside the engine.
C8_EngineFailuresAbsorbed ==
    (ExplainEnded /\ ex.kind = "object") =>
        /\ ex.exit_code = 0
        /\ Len(ex.stdout) = 1
        /\ "error" \notin DOMAIN ex.stdout[1]

\* C9: a run prints nothing before it ends and exactly one object when it
\* ends; the object has an `error` key exactly when the exit code is not 0;
\* malformed JSON ends with the error object and a non-zero exit code; a
\* run ends only with an exit code set.
C9_OneObjectAndExitCode ==
    /\ ex.exit_code = None => (Len(ex.stdout) = 0 /\ ~ExplainEnded)
    /\ ex.exit_code # None =>
          /\ ExplainEnded
          /\ Len(ex.stdout) = 1
          /\ ("error" \in DOMAIN ex.stdout[1]) <=> (ex.exit_code # 0)
          /\ ex.kind = "malformed" =>
                ("error" \in DOMAIN ex.stdout[1] /\ ex.exit_code # 0)

C9_Witness ==
    /\ ex.xpc = "exited"
    /\ ex.kind = "malformed"
    /\ ex.exit_code = 1
    /\ Len(ex.stdout) = 1
    /\ "error" \in DOMAIN ex.stdout[1]

\* The fallback result of this run, if it has one
HasMockResult == ex.result # <<>> /\ "isMock" \in DOMAIN ex.result[1]

\* C10: a fallback result is flagged, has baseline 15.0 / 30.0 / 0.5
\* (1500 / 3000 / 50 hundredths) by model type, contributions 0.01*value for
\* positive values and 0 otherwise / 0.05*value / 0.02*value, and predicts
\* baseline plus the sum of the contributions; the fallback path itself
\* never fails on an object of numeric features, whatever the model type.
C10_FallbackArithmetic ==
    /\ HasMockResult =>
          LET r == ex.result[1]
              v == ex.input_data
              t == ex.model_type
          IN /\ r.isMock = TRUE
             /\ r.expectedValue = (CASE t = "waste_predictor" -> 1500
                                      [] t = "time_estimator" -> 3000
                                      [] OTHER -> 50)
             /\ DOMAIN r.shapValues = DOMAIN v
             /\ \A i \in DOMAIN v :
                   r.shapValues[i] =
                      (CASE t = "waste_predictor" ->
                                (IF v[i] > 0 THEN v[i] ELSE 0)
                         [] t = "time_estimator" -> 5 * v[i]
                         [] OTHER -> 2 * v[i])
             /\ r.prediction = r.expectedValue + sum_seq(r.shapValues)
    /\ (ex.xpc = "exited" /\ ex.kind = "object") => PrimaryAvailable

C10_Witness ==
    /\ ex.xpc = "done"
    /\ HasMockResult
    /\ ex.model_type = "waste_predictor"
    /\ ex.input_data = <<2, -1>>
    /\ ex.result[1].expectedValue = 1500
    /\ ex.result[1].shapValues = <<2, 0>>
    /\ ex.result[1].prediction = 1502
    /\ ex.stdout = <<ex.result[1]>>

Ranked == ex.xpc = "ranked"

\* the features of a list of entries, in order
features_of(entries) == [i \in DOMAIN entries |-> entries[i].feature]

seq_range(s) == {s[i] : i \in DOMAIN s}

\* C11: in a result of either path the importance ranking lists every
\* feature once with its absolute attribution in non-increasing order, the
\* positive and the negative list have at most 5 entries each, and no
\* feature is in both lists.
C11_RankingAndLists ==
    Ranked =>
        LET r == ex.result[1]
            fi == r.featureImportance
            pos == r.topContributors.positive
            neg == r.topContributors.negative
        IN /\ Len(fi) = Len(r.featureNames)
           /\ seq_range(features_of(fi)) = seq_range(r.featureNames)
           /\ \A i \in DOMAIN fi :
                 fi[i].importance = Abs(r.shapValues[fi[i].feature])
           /\ \A i, j \in DOMAIN fi :
                 i < j => fi[i].importance >= fi[j].importance
           /\ Len(pos) <= 5
           /\ Len(neg) <= 5
           /\ seq_range(features_of(pos)) \cap seq_range(features_of(neg)) = {}

C11_Witness ==
    /\ Ranked
    /\ Cardinality({i \in DOMAIN ex.vec : ex.vec[i] > 0}) > 5
    /\ ex.path = "primary"
    /\ Len(ex.result[1].topContributors.positive) = 5
    /\ \E i, j \in DOMAIN ex.vec : ex.vec[i] # ex.vec[j]

\* The first five features of the given sign, in the order of the
\* importance ranking, with their attributions
top_of_ranking(r, sign) ==
    LET has_sign(e) == r.shapValues[e.feature] * sign > 0
        of_sign == SelectSeq(r.featureImportance, has_sign)
    IN [i \in 1..(IF Len(of_sign) < 5 THEN Len(of_sign) ELSE 5) |->
          [feature |-> of_sign[i].feature,
           contribution |-> r.shapValues[of_sign[i].feature]]]

\* C12: in a result of either path the positive (negative) list holds the
\* up to five features with the largest positive (most negative)
\* attributions, ordered as in the importance ranking, so that no listed
\* feature has a smaller absolute attribution than an omitted one of its sign.
C12_TopContributorsAreLargest ==
    Ranked =>
        LET r == ex.result[1]
            pos == r.topContributors.positive
            neg == r.topContributors.negative
        IN /\ pos = top_of_ranking(r, 1)
           /\ neg = top_of_ranking(r, -1)
           /\ \A i \in DOMAIN pos : \A f \in DOMAIN r.shapValues :
                 (r.shapValues[f] > 0 /\ f \notin seq_range(features_of(pos)))
                    => r.shapValues[f] <= pos[i].contribution
           /\ \A i \in DOMAIN neg : \A f \in DOMAIN r.shapValues :
                 (r.shapValues[f] < 0 /\ f \notin seq_range(features_of(neg)))
                    => r.shapValues[f] >= neg[i].contribution

InOpenUnitInterval(f) == 0 < f[1] /\ f[1] < f[2]

rows_of(ds) == [j \in DOMAIN ds |-> ds[j][1]]

\* C13: for a validation fraction in (0,1) the two subsets prepare_data
\* forms hold every row exactly once between them, the train subset has
\* floor(n * (1 - fraction)) rows, and every row carries its own label.
C13_SplitIsPartition ==
    (prep.ppc = "split" /\ InOpenUnitInterval(prep.val_split)) =>
        \A k \in DOMAIN prep.splits :
            LET tr == prep.splits[k].train_ds
                va == prep.splits[k].val_ds
                all == rows_of(tr) \o rows_of(va)
                f == prep.val_split
            IN /\ Len(all) = prep.n
               /\ seq_range(all) = 1..prep.n
               /\ Len(tr) = (prep.n * (f[2] - f[1])) \div f[2]
               /\ \A j \in DOMAIN tr : tr[j][2] = label_of(tr[j][1])
               /\ \A j \in DOMAIN va : va[j][2] = label_of(va[j][1])

C13_Witness ==
    /\ prep.ppc = "split"
    /\ prep.n = 2
    /\ prep.val_split = <<1, 5>>
    /\ Len(prep.splits) > 0
    /\ rows_of(prep.splits[1].train_ds) = <<2>>
    /\ rows_of(prep.splits[1].val_ds) = <<1>>

\* C14: two invocations of prepare_data with the same dataset size, seed
\* and validation fraction give the same train/validation partition, on
\* two trainers or on the same trainer.
C14_SameSeedSamePartition ==
    prep.ppc = "split" =>
        \A i, j \in DOMAIN prep.splits :
            prep.splits[i].seed = prep.splits[j].seed =>
                /\ seq_range(rows_of(prep.splits[i].train_ds)) =
                      seq_range(rows_of(prep.splits[j].train_ds))
                /\ seq_range(rows_of(prep.splits[i].val_ds)) =
                      seq_range(rows_of(prep.splits[j].val_ds))

\* C15: a call of prepare_data with a validation fraction outside (0,1)
\* is rejected and hands out no split.
C15_BadFractionRejected ==
    (prep.ppc = "split" /\ ~InOpenUnitInterval(prep.val_split)) =>
        \A k \in DOMAIN prep.splits : prep.splits[k].raised


\* C16: in every entry point the model's initial parameters are drawn from
\* a generator that was seeded with the run's seed first, so two runs with
\* the same seed have the same initial parameters whatever state the
\* generator of each process was in.
C16_InitialParametersSeeded ==
    prep.ppc = "seed" =>
        /\ \A r \in Runs :
              prep.run[r].params # <<>> =>
                  prep.run[r].params[1] = manual_seed(prep.seed)
        /\ (\A r \in Runs : prep.run[r].params # <<>>) =>
              prep.run[1].params = prep.run[2].params


\* C17: every scale normalize_features returns is greater than 1e-6; a
\* column whose standard deviation is at most 1e-6 gets the scale 1.0 and
\* every other column keeps its standard deviation; no quotient of the
\* normalized table has a zero denominator.
C17_ScalesNeverZero ==
    prep.ppc = "normalized" =>
        LET stds == prep.params[1].stds
        IN /\ \A c \in DOMAIN stds :
                 LET s == col_std(column(prep.features, c))
                 IN /\ stds[c] > Threshold
                    /\ s <= Threshold => stds[c] = One
                    /\ s > Threshold => stds[c] = s
           /\ \A i \in DOMAIN prep.normalized :
                 \A c \in DOMAIN prep.normalized[i] :
                    prep.normalized[i][c][2] # 0

C17_Witness ==
    /\ prep.ppc = "normalized"
    /\ Len(prep.features) = 2
    /\ Len(prep.params[1].stds) = 2
    /\ col_std(column(prep.features, 1)) = 1
    /\ prep.params[1].stds[1] = One
    /\ col_std(column(prep.features, 2)) = 3
    /\ prep.params[1].stds[2] = 3


\* The path with only its extension, the last component, replaced
replace_extension(path) == [path EXCEPT ![Len(path)] = "_metadata.json"]

\* C18: after export_onnx there are two files: the artifact at the output
\* path and, at a different path obtained by replacing only the artifact's
\* extension with _metadata.json, the metadata side-car.
C18_ExportLeavesTwoFiles ==
    pc = "exported" =>
        \E p \in DOMAIN files :
            /\ files[p].kind = "onnx"
            /\ replace_extension(p) # p
            /\ replace_extension(p) \in DOMAIN files
            /\ files[replace_extension(p)].kind = "metadata"


\* C19: on the primary path the compiled model is scored on the input
\* record transformed with the normalization parameters of the model's
\* metadata side-car: scored = (input - mean) / std for every feature.
C19_ScoredOnNormalizedInput ==
    (pc = "explain" /\ ex.scored # <<>>) =>
        /\ ex.side_car # <<>>
        /\ \A i \in DOMAIN ex.input_data :
              ex.scored[1][i] * ex.side_car[1].stds[i] =
                  ex.input_data[i] - ex.side_car[1].means[i]


\* The transition rule of one call of an EarlyStopping instance, read off
\* the instance before and after the call, the score and the value
\* returned.  A non-improving call signals stop when the counter reaches
\* the patience; with `latched`, also when an earlier call signalled it.
TransitionRuleStep(latched) ==
    (pc = "rule" /\ calls' # calls) =>
        LET score == calls'[Len(calls')]
            ret == rets'[Len(rets')]
        IN IF es.best_score = None
           THEN /\ es'.best_score = score
                /\ recorded' = heap[LiveCell]
                /\ ret = FALSE
           ELSE IF score < es.best_score - es.min_delta
           THEN /\ es'.best_score = score
                /\ recorded' = heap[LiveCell]
                /\ es'.counter = 0
           ELSE /\ es'.best_score = es.best_score
                /\ es'.best_state = es.best_state
                /\ recorded' = recorded
                /\ es'.counter = es.counter + 1
                /\ ret = (\/ es'.counter >= es.patience
                          \/ (latched /\ es.should_stop))

\* C20 (as stated): the first call records the score and a checkpoint and
\* returns no-stop; a later call improves exactly when score < bestScore -
\* minDelta; an improving call sets bestScore, replaces the checkpoint and
\* zeroes the counter; a non-improving call leaves bestScore and the
\* checkpoint alone, adds 1 to the counter and signals stop exactly when
\* the counter is then >= patience.
C20_TransitionRule == [][TransitionRuleStep(FALSE)]_vars

\* C20 (amended): the same rule, where a non-improving call signals stop
\* exactly when the counter is then >= patience or an earlier call had
\* already signalled stop.
C20_TransitionRuleLatched == [][TransitionRuleStep(TRUE)]_vars

C20_Witness ==
    /\ pc = "rule"
    /\ es.should_stop
    /\ es.counter > 0
    /\ es.counter < es.patience
    /\ rets # <<>>
    /\ rets[Len(rets)]


\* An invocation of train() that has not yet finished its first epoch
AtInvocationStart ==
    /\ pc \in {"train_epoch", "validate_epoch", "update_state"}
    /\ epoch = 0

\* C21: every invocation of train() starts with early-stopping state of
\* its own: no best score, no checkpoint, counter 0 and not stopped, also
\* the second invocation on a trainer whose first run stopped early.
C21_EachRunStartsFresh ==
    AtInvocationStart =>
        /\ es.best_score = None
        /\ es.best_state = None
        /\ es.counter = 0
        /\ ~es.should_stop


\* The metadata side-cars on disk
side_cars == {p \in DOMAIN files : files[p].kind = "metadata"}

\* C22: the side-car export_onnx writes reports the training that was run:
\* epochs is the number of epochs executed, finalTrainLoss and finalValLoss
\* are the losses of the last executed epoch, and both are null when no
\* epoch was executed.
C22_MetadataSummarizesRun ==
    pc = "exported" =>
        /\ side_cars # {}
        /\ \A p \in side_cars :
              /\ files[p].epochs = Len(calls)
              /\ files[p].epochs = Len(history.train_loss)
              /\ IF Len(calls) = 0
                 THEN /\ files[p].finalTrainLoss = None
                      /\ files[p].finalValLoss = None
                 ELSE /\ files[p].finalTrainLoss = train_loss
                      /\ files[p].finalValLoss = val_loss
                      /\ files[p].finalValLoss = calls[Len(calls)]

C22_Witness ==
    /\ pc = "exported"
    /\ Len(calls) = 2
    /\ history.train_loss = <<0, 1>>
    /\ history.val_loss = <<1, 2>>
    /\ \E p \in side_cars :
          /\ files[p].epochs = 2
          /\ files[p].finalTrainLoss = 1
          /\ files[p].finalValLoss = 2


\* The least element of a non-empty sequence of scores
min_of(s) == CHOOSE m \in seq_range(s) : \A x \in seq_range(s) : m <= x

\* What holds of an EarlyStopping instance between two calls
BestScoreInvariant ==
    (pc = "early_stopping" /\ calls # <<>>) =>
        /\ es.best_score \in seq_range(calls)
        /\ es.best_score - min_of(calls) <= es.min_delta
        /\ (~es.should_stop /\ es.patience >= 1) =>
              (0 <= es.counter /\ es.counter <= es.patience - 1)

\* A call never raises the best score
BestScoreNeverIncreases ==
    (pc = "early_stopping" /\ es.best_score # None) =>
        es'.best_score <= es.best_score

\* C23: after any sequence of calls, bestScore is one of the scores seen,
\* it never increases from one call to the next, it exceeds the least score
\* seen by at most minDelta, and while the stop signal is false the counter
\* is between 0 and patience - 1.
C23_BestScoreAndCounter ==
    []BestScoreInvariant /\ [][BestScoreNeverIncreases]_vars

C23_Witness ==
    /\ pc = "early_stopping"
    /\ es.patience = 2
    /\ calls = <<4, 3, 0, 1>>
    /\ es.best_score = 0
    /\ es.counter = 1
    /\ ~es.should_stop

====
